---------------------------- MODULE Spec2Model ----------------------------
(***************************************************************************)
(* FirstAidVox backend: the conversational triage client                   *)
(* (app/services/ai_service_conversational.py), the single-shot client     *)
(* (app/services/ai_service.py) and the request handler                    *)
(* (app/handlers/multimodal.py).                                           *)
(*                                                                         *)
(* Texts are TLA+ strings.  A character outside printable ASCII is written *)
(* as "~" followed by its code point in five decimal digits (the Hangul    *)
(* syllable U+C0C1 is "~49345"), so that a text is a sequence of units and *)
(* substring search, case folding and stripping work unit by unit as the   *)
(* Python string operations do character by character.  "~" itself never   *)
(* occurs in a text.  Coordinates are integers in units of 1e-4 degree.    *)
(***************************************************************************)
EXTENDS Integers, Sequences, FiniteSets, TLC

VARIABLES
    model,      \* self._model of the conversational client: TRUE once initialized
    history,    \* the caller-owned conversation history, a list of turns
    call,       \* arguments of the most recent generate_conversational_response call
    result,     \* what that call returned or raised
    invoked,    \* number of generate_content invocations made by that call
    phase,      \* "idle" | "returned": whether the caller holds an unprocessed result
    lastStage,  \* the assessment_stage the caller last received in this conversation
    pc,         \* per request served by the process: its position in the handler
    worker,     \* per request: state of its generate_content call
    loopHolder, \* the request whose synchronous code occupies the event-loop
                \* thread, or 0 when the loop is free to run any coroutine
    service_manager \* the ServiceManager: its _initialized flag and whether
                \* its two clients hold a connection

vars == <<model, history, call, result, invoked, phase, lastStage,
          pc, worker, loopHolder, service_manager>>

convVars == <<model, history, call, result, invoked, phase, lastStage>>
loopVars == <<pc, worker, loopHolder>>
managerVars == <<service_manager>>

None == [none |-> TRUE]

(***************************************************************************)
(* Python string operations                                                *)
(***************************************************************************)

\* m in t
Contains(t, m) ==
    \E i \in 1..(Len(t) - Len(m) + 1) : SubSeq(t, i, i + Len(m) - 1) = m

\* any(k in t for k in ks)
ContainsAny(t, ks) == \E k \in ks : Contains(t, k)

\* length of the first character unit of a non-empty text
UnitLen(t) == IF Head(t) = "~" THEN 6 ELSE 1

Digits == "0123456789"
DigitVal(d) == CHOOSE k \in 0..9 : SubSeq(Digits, k + 1, k + 1) = d
Digit(k) == SubSeq(Digits, k + 1, k + 1)

\* code point of an escaped unit "~ddddd"
Code(u) ==
    DigitVal(SubSeq(u, 2, 2)) * 10000 + DigitVal(SubSeq(u, 3, 3)) * 1000
  + DigitVal(SubSeq(u, 4, 4)) * 100 + DigitVal(SubSeq(u, 5, 5)) * 10
  + DigitVal(SubSeq(u, 6, 6))

Esc(n) ==
    "~" \o Digit(n \div 10000) \o Digit((n \div 1000) % 10)
        \o Digit((n \div 100) % 10) \o Digit((n \div 10) % 10) \o Digit(n % 10)

UpperAscii == "ABCDEFGHIJKLMNOPQRSTUVWXYZ"
LowerAscii == "abcdefghijklmnopqrstuvwxyz"

\* str.lower() on one character: ASCII and Latin-1 capitals fold; the other
\* code points used here (Hangul, kana, CJK, punctuation) have no case.
LowerChar(u) ==
    IF Len(u) = 1
    THEN IF Contains(UpperAscii, u)
         THEN LET k == CHOOSE j \in 1..26 : SubSeq(UpperAscii, j, j) = u
              IN  SubSeq(LowerAscii, k, k)
         ELSE u
    ELSE LET c == Code(u)
         IN  IF c \in 192..222 /\ c # 215 THEN Esc(c + 32) ELSE u

\* a position k, 1 <= k < Len(t), near the middle of a text of two or more
\* units such that both SubSeq(t, 1, k) and the rest consist of whole units
Cut(t) ==
    LET m  == Len(t) \div 2
        ps == {p \in (m - 4)..m : p >= 1 /\ SubSeq(t, p, p) = "~"}
        k  == IF ps = {} THEN m ELSE (CHOOSE p \in ps : TRUE) - 1
    IN  IF k = 0 THEN UnitLen(t) ELSE k

\* str.lower(), character by character
RECURSIVE Lower(_)
Lower(t) ==
    IF t = "" THEN ""
    ELSE IF Len(t) = UnitLen(t) THEN LowerChar(t)
    ELSE LET k == Cut(t)
         IN  Lower(SubSeq(t, 1, k)) \o Lower(SubSeq(t, k + 1, Len(t)))

\* str.isspace() on one character
IsSpace(u) ==
    IF Len(u) = 1 THEN u \in {" ", "\n", "\t", "\r", "\f"}
    ELSE Code(u) \in {160, 12288}

RECURSIVE LStrip(_)
LStrip(t) ==
    IF t = "" THEN ""
    ELSE LET n == UnitLen(t)
         IN  IF IsSpace(SubSeq(t, 1, n)) THEN LStrip(SubSeq(t, n + 1, Len(t)))
             ELSE t

RECURSIVE RStrip(_)
RStrip(t) ==
    IF t = "" THEN ""
    ELSE LET n == IF Len(t) >= 6 /\ SubSeq(t, Len(t) - 5, Len(t) - 5) = "~"
                  THEN 6 ELSE 1
         IN  IF IsSpace(SubSeq(t, Len(t) - n + 1, Len(t)))
             THEN RStrip(SubSeq(t, 1, Len(t) - n))
             ELSE t

\* str.strip()
Strip(t) == RStrip(LStrip(t))

\* `not text or not text.strip()`
IsBlank(text) == text = "" \/ Strip(text) = ""

\* first index at which m occurs in t (t contains m)
FirstIndex(t, m) ==
    CHOOSE i \in 1..(Len(t) - Len(m) + 1) :
        /\ SubSeq(t, i, i + Len(m) - 1) = m
        /\ \A j \in 1..(i - 1) : SubSeq(t, j, j + Len(m) - 1) # m

\* str.split(sep): the list of the parts between the occurrences of sep
RECURSIVE Split(_, _)
Split(t, sep) ==
    IF ~Contains(t, sep) THEN <<t>>
    ELSE LET i == FirstIndex(t, sep)
         IN  <<SubSeq(t, 1, i - 1)>> \o Split(SubSeq(t, i + Len(sep), Len(t)), sep)

RECURSIVE Join(_)
Join(parts) == IF parts = <<>> THEN "" ELSE Head(parts) \o Join(Tail(parts))

\* str.replace(old, ""): every non-overlapping occurrence of old, found from
\* left to right, is removed
Remove(t, old) == Join(Split(t, old))

\* some character of t has a code point in S (re.search of a character class)
HasCodeIn(t, S) ==
    \E i \in 1..Len(t) :
        SubSeq(t, i, i) = "~" /\ Code(SubSeq(t, i, i + 5)) \in S

WordAscii ==
    "abcdefghijklmnopqrstuvwxyzABCDEFGHIJKLMNOPQRSTUVWXYZ0123456789_"

\* non-ASCII code points of the modelled texts that are not \w:
\* inverted marks, degree sign, CJK and full-width punctuation
PunctCodes == {161, 176, 191, 12289, 12290, 65281, 65311}

\* the character matches [\w\s]
IsWordOrSpace(u) ==
    IF Len(u) = 1 THEN Contains(WordAscii, u) \/ IsSpace(u)
    ELSE Code(u) \notin PunctCodes

\* re.sub(r'[^\w\s]', '', t)
RECURSIVE StripPunct(_)
StripPunct(t) ==
    IF t = "" THEN ""
    ELSE IF Len(t) = UnitLen(t) THEN (IF IsWordOrSpace(t) THEN t ELSE "")
    ELSE LET k == Cut(t)
         IN  StripPunct(SubSeq(t, 1, k)) \o StripPunct(SubSeq(t, k + 1, Len(t)))

(***************************************************************************)
(* detect_language                                                         *)
(***************************************************************************)

\* [가-힣ㄱ-ㅎㅏ-ㅣ]
HangulClass == (44032..55203) \cup (12593..12622) \cup (12623..12643)

\* [ひ-ゖヰ-ヺカ-ヿ一-龯ァ-ヴ]
JapaneseClass ==
    (12402..12438) \cup (12528..12538) \cup (12459..12543)
        \cup (19968..40879) \cup (12449..12532)

spanish_indicators ==
    {"dolor", "cabeza", "est~00243mago", "fiebre", "n~00225useas",
     "mareo", "sangre", "herida", "corte", "quemadura", "fractura",
     "emergencia", "hospital", "m~00233dico", "ayuda", "duele",
     "siento", "tengo", "estoy", "me duele", "qu~00233", "c~00243mo",
     "cu~00225ndo", "d~00243nde", "por qu~00233"}

korean_indicators ==
    {"~50500~54028", "~50500~54536", "~47672~47532", "~48176",
     "~50676", "~44592~52840", "~44048~44592", "~48337~50896",
     "~51032~49324", "~50557", "apa", "apun", "meori", "bae", "yeol",
     "gichim", "gamgi"}

detect_language(text) ==
    LET clean_text == StripPunct(Lower(text))
    IN  IF HasCodeIn(text, HangulClass) THEN "ko"
        ELSE IF HasCodeIn(text, JapaneseClass) THEN "ja"
        ELSE IF ContainsAny(clean_text, spanish_indicators) THEN "es"
        ELSE IF ContainsAny(clean_text, korean_indicators) THEN "ko"
        ELSE "en"

(***************************************************************************)
(* detect_language of app/services/ai_service.py                           *)
(***************************************************************************)

\* [~44032-~55203], the Hangul syllables only
ai_service_HangulClass == 44032..55203

\* [ひらがなカタカナ一-龯]: seven kana and the ideographs
ai_service_JapaneseClass ==
    {12402, 12425, 12364, 12394, 12459, 12479, 12490} \cup (19968..40879)

ai_service_spanish_indicators ==
    {"dolor", "cabeza", "est~00243mago", "fiebre", "n~00225useas",
     "mareo", "sangre", "herida", "corte", "quemadura", "fractura",
     "emergencia", "hospital", "m~00233dico", "ayuda", "duele",
     "siento", "tengo", "estoy", "me duele"}

ai_service_detect_language(text) ==
    LET clean_text == StripPunct(Lower(text))
    IN  IF HasCodeIn(text, ai_service_HangulClass) THEN "ko"
        ELSE IF HasCodeIn(text, ai_service_JapaneseClass) THEN "ja"
        ELSE IF ContainsAny(clean_text, ai_service_spanish_indicators) THEN "es"
        ELSE "en"

(***************************************************************************)
(* Texts and keyword lists of the conversational client                    *)
(***************************************************************************)

CompletedBriefKo ==
    "~49345~45812~51060 ~51060~48120 ~50756~47308~46104~50632~49845~45768~45796. ~52628~44032 ~51613~49345~51060~45208 ~50864~47140~49324~54637~51060 ~51080~51004~49884~47732 ~51032~47308~51652~50640~44172 ~51649~51217 ~47928~51032~54616~49884~44592 ~48148~46989~45768~45796."
CompletedDetailedKo ==
    "~51060~51204~50640 ~51228~44277~46108 ~51652~45800~44284 ~44428~51109~49324~54637~51012 ~52280~44256~54616~49884~44256, ~51613~49345~51060 ~50501~54868~46104~44144~45208 ~49352~47196~50868 ~51613~49345~51060 ~45208~53440~45208~47732 ~48337~50896~51012 ~48169~47928~54616~49464~50836."
CompletedBriefEn ==
    "The consultation has already been completed. If you have additional symptoms or concerns, please consult with a healthcare professional directly."
CompletedDetailedEn ==
    "Please refer to the previous diagnosis and recommendations provided. If symptoms worsen or new symptoms appear, visit a healthcare facility."

\* response.text replaced when it is empty or None
FallbackText ==
    "I apologize, but I couldn't generate a response. Please try again or seek immediate medical attention if this is an emergency."

MockInitialBriefKo ==
    "~51613~49345~51012 ~47568~50432~54644 ~51452~49492~49436 ~44048~49324~54633~45768~45796. ~50616~51228~48512~53552 ~49884~51089~46104~50632~44256, ~45796~47480 ~46041~48152 ~51613~49345(~50676, ~44592~52840, ~47785 ~50500~54548 ~46321)~51008 ~50630~51004~49888~44032~50836?"
MockInitialDetailedKo ==
    "~54952~44284~51201~51064 ~51652~45800~51012 ~50948~54644 ~51613~49345 ~49884~51089 ~49884~44592~50752 ~51452~50836 ~46041~48152 ~51613~49345~46308~51012 ~54632~44760 ~50508~47140~51452~49884~47732 ~48736~47476~44172 ~54032~45800~54624 ~49688 ~51080~49845~45768~45796."
MockClarificationBriefKo ==
    "~52628~44032~47196 ~51613~49345~51032 ~51221~46020~45716 ~50612~46496~49888~44032~50836? ~51068~49345~49373~54876~50640 ~51648~51109~51060 ~51080~51012 ~51221~46020~51064~44032~50836?"
MockClarificationDetailedKo ==
    "~51613~49345~51032 ~49900~44033~49457~51012 ~54028~50501~54616~50668 ~51201~51208~54620 ~52824~47308 ~48169~54693~51012 ~51228~49884~54616~44592 ~50948~54620 ~51656~47928~51077~45768~45796."
MockFinalBriefKo ==
    "**~51652~45800**: ~44048~44592 ~46608~45716 ~49345~44592~46020 ~44048~50684~51004~47196 ~48372~51077~45768~45796\n**~51593~49884 ~44288~47532**: ~52649~48516~54620 ~55092~49885, ~49688~48516 ~49453~52712, ~54644~50676~51228 ~48373~50857\n**~48337~50896**: ~51613~49345~51060 3~51068 ~51060~49345 ~51648~49549~46104~44144~45208 ~50501~54868~46104~47732 ~44032~44620~50868 ~45236~44284~45208 ~51060~48708~51064~54980~44284 ~48169~47928\n**~50557~44397**: ~54644~50676~51228(~53440~51060~47112~45440, ~48512~47336~54172), ~47785~52884~46356, ~44592~52840~50557 ~44396~51077 ~44032~45733\n**~51025~44553~49345~54889**: ~44256~50676(39~46020 ~51060~49345), ~54840~55137~44260~46976, ~49900~54620 ~46160~53685~51060 ~51080~51004~47732 ~51593~49884 ~51025~44553~49892 ~48169~47928 ~46608~45716 119 ~50672~46973\n**~49345~45812~51060 ~50756~47308~46104~50632~49845~45768~45796** - ~48736~47480 ~54924~48373~51012 ~50948~54644 ~52649~48516~55176 ~49772~49464~50836."
MockFinalDetailedKo ==
    "~47568~50432~54644 ~51452~49888 ~51613~49345~46308~47196 ~48372~50500 ~51068~48152~51201~51064 ~44048~44592~45208 ~49345~44592~46020 ~44048~50684 ~44032~45733~49457~51060 ~45458~49845~45768~45796. ~51088~44032 ~44288~47532~47196 ~54840~51204~46112 ~44032~45733~49457~51060 ~45458~51004~45208, ~51613~49345~51060 ~50501~54868~46104~44144~45208 ~51648~49549~46104~47732 ~51032~47308~51652~51032 ~51652~47308~47484 ~48155~51004~49884~44592 ~48148~46989~45768~45796."
MockInitialBriefEn ==
    "Thank you for describing your symptoms. When did this start and do you have any other symptoms like fever, cough, or sore throat?"
MockInitialDetailedEn ==
    "To quickly assess your condition, I need to know the timeline and key associated symptoms that help differentiate between common conditions."
MockClarificationBriefEn ==
    "How severe are your symptoms? Are they interfering with your daily activities?"
MockClarificationDetailedEn ==
    "Understanding the severity helps determine the appropriate level of care and urgency."
MockFinalBriefEn ==
    "**Diagnosis**: Upper respiratory infection (common cold/flu)\n**Immediate Care**: Rest, drink plenty of fluids, take acetaminophen or ibuprofen for fever\n**Hospital**: Visit family doctor or urgent care if symptoms worsen or persist beyond 7 days\n**Pharmacy**: Acetaminophen, ibuprofen, throat lozenges, and cough drops available over-the-counter\n**Emergency**: Call 911 if you develop difficulty breathing, chest pain, or fever above 39~00176C (102~00176F)\n**Consultation completed** - Rest well and monitor your symptoms."
MockFinalDetailedEn ==
    "Based on your symptoms, this appears to be a typical upper respiratory infection. Most cases resolve within 5-7 days with supportive care. Stay hydrated, get plenty of rest, and use over-the-counter medications as needed for comfort."

MockBrief(user_language, stage) ==
    IF user_language = "ko"
    THEN IF stage = "initial" THEN MockInitialBriefKo
         ELSE IF stage = "clarification" THEN MockClarificationBriefKo
         ELSE MockFinalBriefKo
    ELSE IF stage = "initial" THEN MockInitialBriefEn
         ELSE IF stage = "clarification" THEN MockClarificationBriefEn
         ELSE MockFinalBriefEn

MockDetailed(user_language, stage) ==
    IF user_language = "ko"
    THEN IF stage = "initial" THEN MockInitialDetailedKo
         ELSE IF stage = "clarification" THEN MockClarificationDetailedKo
         ELSE MockFinalDetailedKo
    ELSE IF stage = "initial" THEN MockInitialDetailedEn
         ELSE IF stage = "clarification" THEN MockClarificationDetailedEn
         ELSE MockFinalDetailedEn

explicit_final_markers ==
    {"consultation completed", "~49345~45812~51060 ~50756~47308",
     "~49345~45812 ~50756~47308", "assessment complete",
     "final diagnosis", "~52572~51333 ~51652~45800",
     "~30456~35527~12364~23436~20102", "consulta completada"}

diagnosis_markers ==
    {"**diagnosis**:", "diagnosis:", "**~51652~45800**:",
     "~51652~45800:", "**immediate care**:", "immediate care:",
     "~51593~49884 ~44288~47532:", "**hospital**:", "hospital:",
     "**~48337~50896**:", "~48337~50896:", "**pharmacy**:",
     "pharmacy:", "**~50557~44397**:", "~50557~44397:",
     "**emergency**:", "emergency:", "**~51025~44553**:",
     "~51025~44553~49345~54889:", "upper respiratory", "common cold",
     "flu", "infection", "~44048~44592",
     "~49345~44592~46020 ~44048~50684", "~46021~44048",
     "~48148~51060~47084~49828"}

care_keywords ==
    {"hospital", "emergency", "doctor", "medical help",
     "seek medical attention", "~48337~50896", "~51025~44553~49892",
     "~51032~49324", "~51032~47308~51652", "~51652~47308", "hospital",
     "emergencia", "m~00233dico", "atenci~00243n m~00233dica",
     "~30149~38498", "~25937~24613", "~21307~32773", "~21307~30274"}

urgency_keywords ==
    {"emergency", "urgent", "immediate", "serious", "~51025~44553",
     "~44596~44553", "~51593~49884", "~49900~44033", "emergencia",
     "urgente", "inmediato", "grave", "~32202~24613", "~24613~12366",
     "~37325~31716"}

\* f"BRIEF: {brief}\n\nDETAILED: {detailed}"
ResponseText(brief, detailed) ==
    "BRIEF: " \o brief \o "\n\nDETAILED: " \o detailed

(***************************************************************************)
(* What the client tests on a text                                         *)
(***************************************************************************)

\* the test applied to the lower-cased content of one assistant message
CompletedContent(content) ==
    \/ Contains(content, "consultation completed")
    \/ Contains(content, "~49345~45812~51060 ~50756~47308")
    \/ /\ Contains(content, "diagnosis")
       /\ Contains(content, "hospital") \/ Contains(content, "pharmacy")

\* the split without the test `if brief_part and detailed_part`
ParseStructured_NoEmptyCheck(response_text) ==
    LET whole == [brief_text |-> response_text, detailed_text |-> response_text]
    IN  IF Contains(response_text, "BRIEF:") /\ Contains(response_text, "DETAILED:")
        THEN LET parts == Split(response_text, "DETAILED:")
             IN  [brief_text    |-> Strip(Remove(parts[1], "BRIEF:")),
                  detailed_text |-> Strip(parts[2])]
        ELSE whole

\* the BRIEF: / DETAILED: split of the backend text
ParseStructured(response_text) ==
    LET whole == [brief_text |-> response_text, detailed_text |-> response_text]
    IN  IF Contains(response_text, "BRIEF:") /\ Contains(response_text, "DETAILED:")
        THEN LET parts         == Split(response_text, "DETAILED:")
                 brief_part    == Strip(Remove(parts[1], "BRIEF:"))
                 detailed_part == Strip(parts[2])
             IN  IF brief_part # "" /\ detailed_part # ""
                 THEN [brief_text |-> brief_part, detailed_text |-> detailed_part]
                 ELSE whole
        ELSE whole

has_explicit_markers(response_text) ==
    ContainsAny(Lower(response_text), explicit_final_markers)

has_diagnosis_content(response_text) ==
    ContainsAny(Lower(response_text), diagnosis_markers)

\* the keyword part of should_search_hospitals
seeks_care(response_text) ==
    \/ ContainsAny(Lower(response_text), care_keywords)
    \/ ContainsAny(Lower(response_text), urgency_keywords)

(***************************************************************************)
(* MultimodalHandler.sanitize_text.  The regular expressions are matched   *)
(* on the lower-cased text (re.IGNORECASE).                                *)
(***************************************************************************)

\* len(text): the number of characters
CharLen(t) ==
    Len(t) - 5 * Cardinality({i \in 1..Len(t) : SubSeq(t, i, i) = "~"})

\* the character matches \w
IsWord(u) == IsWordOrSpace(u) /\ ~IsSpace(u)

\* what is left of t after the longest run of \w characters at its start
RECURSIVE SkipWord(_)
SkipWord(t) ==
    IF t = "" THEN ""
    ELSE LET n == UnitLen(t)
         IN  IF IsWord(SubSeq(t, 1, n)) THEN SkipWord(SubSeq(t, n + 1, Len(t)))
             ELSE t

\* re.search(r'<tag[^>]*>.*?</tag>', t): an opening "<tag", the first ">"
\* after it, and a closing tag after that with no newline in between
\* ('.' does not match a newline)
MatchesTagPair(t, tag) ==
    LET open  == "<" \o tag
        close == "</" \o tag \o ">"
    IN  \E i \in 1..(Len(t) - Len(open) + 1) :
            /\ SubSeq(t, i, i + Len(open) - 1) = open
            /\ LET rest == SubSeq(t, i + Len(open), Len(t))
               IN  /\ Contains(rest, ">")
                   /\ LET after == SubSeq(rest, FirstIndex(rest, ">") + 1, Len(rest))
                      IN  /\ Contains(after, close)
                          /\ ~Contains(SubSeq(after, 1, FirstIndex(after, close) - 1),
                                       "\n")

\* re.search(r'on\w+\s*=', t)
MatchesEventHandler(t) ==
    \E i \in 1..(Len(t) - 1) :
        /\ SubSeq(t, i, i + 1) = "on"
        /\ LET rest  == SubSeq(t, i + 2, Len(t))
               after == LStrip(SkipWord(rest))
           IN  /\ SkipWord(rest) # rest
               /\ after # ""
               /\ Head(after) = "="

\* some pattern of DANGEROUS_PATTERNS is found in the text
MatchesDangerousPattern(sanitized_text) ==
    LET t == Lower(sanitized_text)
    IN  \/ MatchesTagPair(t, "script")
        \/ Contains(t, "javascript:")
        \/ MatchesEventHandler(t)
        \/ MatchesTagPair(t, "iframe")

\* re.sub(r'<[^>]+>', '', t): from left to right, a "<" with a first ">"
\* after it and at least one character in between is removed with them
RECURSIVE RemoveTags(_)
RemoveTags(t) ==
    IF ~Contains(t, "<") THEN t
    ELSE LET i    == FirstIndex(t, "<")
             rest == SubSeq(t, i + 1, Len(t))
         IN  IF ~Contains(rest, ">") THEN t
             ELSE LET j == FirstIndex(rest, ">")
                  IN  IF j = 1 THEN SubSeq(t, 1, i) \o RemoveTags(rest)
                      ELSE SubSeq(t, 1, i - 1)
                               \o RemoveTags(SubSeq(rest, j + 1, Len(rest)))

\* re.sub(r'\s+', ' ', t)
RECURSIVE CollapseWhitespace(_)
CollapseWhitespace(t) ==
    IF t = "" THEN ""
    ELSE LET n == UnitLen(t)
         IN  IF IsSpace(SubSeq(t, 1, n)) THEN " " \o CollapseWhitespace(LStrip(t))
             ELSE SubSeq(t, 1, n) \o CollapseWhitespace(SubSeq(t, n + 1, Len(t)))

\* an HTTPException with its status code and the code of its detail
HTTPException(status_code, code) ==
    [outcome |-> "raised",
     error   |-> [type |-> "HTTPException", status_code |-> status_code,
                  code |-> code]]

\* longest text sanitize_text accepts
MaxTextLength == 2000

sanitize_text(text) ==
    IF text = "" THEN HTTPException(400, "INVALID_TEXT")
    ELSE LET sanitized_text == Strip(text)
         IN  IF sanitized_text = "" THEN HTTPException(400, "EMPTY_TEXT")
             ELSE IF CharLen(sanitized_text) > MaxTextLength
             THEN HTTPException(400, "TEXT_TOO_LONG")
             ELSE IF MatchesDangerousPattern(sanitized_text)
             THEN HTTPException(400, "UNSAFE_TEXT_CONTENT")
             ELSE [outcome |-> "returned",
                   text    |-> Strip(CollapseWhitespace(RemoveTags(sanitized_text)))]

\* s repeated n times
RECURSIVE Repeat(_, _)
Repeat(s, n) ==
    IF n = 0 THEN ""
    ELSE IF n % 2 = 0 THEN LET h == Repeat(s, n \div 2) IN h \o h
    ELSE s \o Repeat(s, n - 1)

\* texts a request arrives with: plain ones, blank ones, one of 2001
\* characters, markup the patterns name, markup around and inside words
RequestTexts ==
    {"I have a headache",
     "  Where is the nearest   Hospital?\n",
     "~47672~47532~44032 ~50500~54028~50836",
     "",
     "   ",
     Repeat("a", MaxTextLength + 1),
     "<script>alert(1)</script>",
     "<SCRIPT src=x>\nalert(1)\n</SCRIPT>",
     "<iframe src=x></iframe> help",
     "click javascript:void(0)",
     "my condition = worse",
     "I need a <b>doctor</b> now",
     "java<b>script:alert(1)",
     "on<i>click=alert(1)",
     "<scr<b>ipt>alert(1)</scr<b>ipt>",
     "<b>",
     "<br/> <hr/>",
     "a < b and c > d",
     "<>"}

SanitizedOf == [t \in RequestTexts |-> sanitize_text(t)]

\* the texts sanitize_text returns for them
SanitizedTexts ==
    {SanitizedOf[t].text : t \in {x \in RequestTexts : SanitizedOf[x].outcome = "returned"}}

(***************************************************************************)
(* Inputs: the texts, locations and backend behaviours the calls are made  *)
(* with                                                                    *)
(***************************************************************************)

UserTexts ==
    {"I have a headache",
     "~47672~47532~44032 ~50500~54028~50836",
     "~38957~12364~30171~12356~12391~12377",
     "   "}

\* no location, or 37.7749, -122.4194
Locations == {None, [latitude |-> 377749, longitude |-> -1224194]}

\* texts the generation backend may answer with
BackendTexts ==
    {"How long have you had these symptoms?",
     "Consultation completed. Rest well.",
     "~30456~35527~12364~23436~20102~12375~12414~12375~12383",
     "Final diagnosis: tension headache. Please see a doctor.",
     "It may be a common cold.",
     "BRIEF: **Diagnosis**: flu\n**Hospital**: visit urgent care\n\nDETAILED: Rest and fluids.",
     "Please go to the emergency room immediately.",
     ""}

BackendOutcomes ==
    {[kind |-> "text", text |-> t] : t \in BackendTexts}
        \cup {[kind |-> "timeout"],
              [kind |-> "raise", message |-> "503 Service Unavailable"]}

Roles == {"user", "assistant"}

StartTexts == {"I have a headache", "Consultation completed. Rest well."}

\* histories a conversation may be resumed from
StartHistories ==
    {<<>>} \cup {<<[role |-> r, content |-> t]>> : r \in Roles, t \in StartTexts}

\* longest history the caller lets a conversation grow to
MaxTurns == 4

\* the response texts the mock and the short-circuit produce
CannedTexts ==
    {ResponseText(MockBrief(l, st), MockDetailed(l, st)) :
        l \in {"ko", "en"}, st \in {"initial", "clarification", "final"}}
        \cup {ResponseText(CompletedBriefKo, CompletedDetailedKo),
              ResponseText(CompletedBriefEn, CompletedDetailedEn)}

\* GeminiClient.generate_response: the words of the user text that ask for a
\* facility lookup
help_keywords == {"hospital", "emergency", "doctor", "medical help"}

\* the keyword test without text.lower()
asks_for_help_CaseSensitive(text) == ContainsAny(text, help_keywords)

asks_for_help(text) == ContainsAny(Lower(text), help_keywords)

\* user texts of a one-shot triage call
TriageTexts == UserTexts \cup {"Where is the nearest Hospital?"}

\* answers of generate_content that exercise the BRIEF: / DETAILED: split:
\* one marker only, an empty segment, the markers in reverse order, a
\* second DETAILED: marker, blanks only
ParserTexts ==
    {"BRIEF: Rest and drink water.",
     "DETAILED: Rest and drink water.",
     "BRIEF: \n\nDETAILED: Rest and drink water.",
     "BRIEF: Rest.\n\nDETAILED:   ",
     "DETAILED: Rest. BRIEF: Drink water.",
     "BRIEF: Rest.\nDETAILED: Drink water.\nDETAILED: Sleep.",
     "   "}

\* what search_medical_documents does: it returns a list of documents, its
\* request does not answer within 15 s, or it raises
SearchOutcomes ==
    {[kind |-> "results", results |-> <<>>],
     [kind |-> "results", results |-> <<[title |-> "Headache first aid"]>>],
     [kind |-> "timeout"],
     [kind |-> "raise", message |-> "403 Permission denied"]}

\* every text that occurs as an argument, a backend answer or a message
Texts == UserTexts \cup BackendTexts \cup {FallbackText} \cup CannedTexts
             \cup StartTexts \cup TriageTexts \cup ParserTexts
             \cup SanitizedTexts

\* the text functions tabulated over Texts: each is evaluated once per text
LanguageOf  == [t \in Texts |-> detect_language(t)]
BlankOf     == [t \in Texts |-> IsBlank(t)]
CompletedOf == [t \in Texts |-> CompletedContent(Lower(t))]
ExplicitOf  == [t \in Texts |-> has_explicit_markers(t)]
DiagnosisOf == [t \in Texts |-> has_diagnosis_content(t)]
SeeksCareOf == [t \in Texts |-> seeks_care(t)]
ParsedOf    == [t \in Texts |-> ParseStructured(t)]
AsksForHelpOf == [t \in TriageTexts \cup SanitizedTexts |-> asks_for_help(t)]

(***************************************************************************)
(* ConversationalGeminiClient.generate_conversational_response             *)
(***************************************************************************)

\* the Optional[List] argument conversation_history: absent (None) or a list
NoHistory == [given |-> FALSE, turns |-> <<>>]
Given(turns) == [given |-> TRUE, turns |-> turns]

\* `if conversation_history:`
Truthy(conversation_history) ==
    conversation_history.given /\ conversation_history.turns # <<>>

\* `len(conversation_history) if conversation_history else 0`
HistoryLen(conversation_history) ==
    IF Truthy(conversation_history) THEN Len(conversation_history.turns) ELSE 0

consultation_completed(conversation_history) ==
    /\ Truthy(conversation_history)
    /\ \E i \in 1..Len(conversation_history.turns) :
          /\ conversation_history.turns[i].role = "assistant"
          /\ CompletedOf[conversation_history.turns[i].content]

\* the reply of the already-completed short-circuit
CompletedResponse(conversation_history, user_language) ==
    LET brief_response  == IF user_language = "ko" THEN CompletedBriefKo
                           ELSE CompletedBriefEn
        detailed_advice == IF user_language = "ko" THEN CompletedDetailedKo
                           ELSE CompletedDetailedEn
    IN  [text           |-> ResponseText(brief_response, detailed_advice),
         brief_text     |-> brief_response,
         detailed_text  |-> detailed_advice,
         function_calls |-> <<>>,
         metadata       |-> [assessment_stage       |-> "completed",
                             conversation_length    |-> Len(conversation_history.turns),
                             user_language          |-> user_language,
                             consultation_completed |-> TRUE]]

\* the count rule with its upper threshold off by one (`> 4` for `>= 4`)
CountStage_LateFinal(message_count) ==
    IF message_count > 4 THEN "final"
    ELSE IF message_count <= 1 THEN "initial"
    ELSE "clarification"

\* the count rule without its turn budget: no history length forces final
CountStage_NoTurnBudget(message_count) ==
    IF message_count <= 1 THEN "initial" ELSE "clarification"

\* the stage given by the number of messages alone
CountStage(message_count) ==
    IF message_count >= 4 THEN "final"
    ELSE IF message_count <= 1 THEN "initial"
    ELSE "clarification"

\* the stage rule with the explicit phrases under the same history test as
\* the diagnosis markers
AssessmentStage_MarkersNeedHistory(conversation_history, response_text) ==
    IF /\ ExplicitOf[response_text] \/ DiagnosisOf[response_text]
       /\ Truthy(conversation_history)
       /\ Len(conversation_history.turns) >= 2
    THEN "final"
    ELSE CountStage(HistoryLen(conversation_history))

\* the stage rule with the diagnosis markers upgrading at any history length
AssessmentStage_MarkersAnyHistory(conversation_history, response_text) ==
    IF ExplicitOf[response_text] \/ DiagnosisOf[response_text] THEN "final"
    ELSE CountStage(HistoryLen(conversation_history))

\* the stage of a call answered by the backend
AssessmentStage(conversation_history, response_text) ==
    IF ExplicitOf[response_text] THEN "final"
    ELSE IF /\ DiagnosisOf[response_text]
            /\ Truthy(conversation_history)
            /\ Len(conversation_history.turns) >= 2
         THEN "final"
    ELSE CountStage(HistoryLen(conversation_history))

\* the lookup rule without its stage test
should_search_hospitals_AnyStage(assessment_stage, location, response_text) ==
    /\ location # None
    /\ SeeksCareOf[response_text]

\* `assessment_stage == "final" and location and <keyword found>`
should_search_hospitals(assessment_stage, location, response_text) ==
    /\ assessment_stage = "final"
    /\ location # None
    /\ SeeksCareOf[response_text]

SearchHospitalsCall(latitude, longitude) ==
    [name       |-> "search_hospitals",
     parameters |-> [latitude  |-> latitude,
                     longitude |-> longitude,
                     radius_km |-> 10]]

\* the AIResponse built from the text the backend returned
BackendResponse(text, conversation_history, location, backend_text) ==
    LET response_text    == IF backend_text = "" THEN FallbackText
                            ELSE backend_text
        parsed           == ParsedOf[response_text]
        assessment_stage == AssessmentStage(conversation_history, response_text)
    IN  [text           |-> response_text,
         brief_text     |-> parsed.brief_text,
         detailed_text  |-> parsed.detailed_text,
         function_calls |->
             IF should_search_hospitals(assessment_stage, location, response_text)
             THEN <<SearchHospitalsCall(location.latitude, location.longitude)>>
             ELSE <<>>,
         metadata       |-> [assessment_stage    |-> assessment_stage,
                             conversation_length |-> HistoryLen(conversation_history),
                             user_language       |-> LanguageOf[text]]]

(***************************************************************************)
(* ConversationalGeminiClient._generate_mock_response                      *)
(***************************************************************************)

\* default Seoul coordinates of the mock, 37.5665 and 126.9780
MockLatitude == 375665
MockLongitude == 1269780

generate_mock_response(text, conversation_history) ==
    LET user_language == LanguageOf[text]
        message_count == HistoryLen(conversation_history)
        stage         == CountStage(message_count)
        brief         == MockBrief(user_language, stage)
        detailed      == MockDetailed(user_language, stage)
    IN  [text           |-> ResponseText(brief, detailed),
         brief_text     |-> brief,
         detailed_text  |-> detailed,
         function_calls |->
             IF stage = "final"
             THEN <<SearchHospitalsCall(MockLatitude, MockLongitude)>>
             ELSE <<>>,
         metadata       |-> [assessment_stage    |-> stage,
                             conversation_length |-> message_count,
                             user_language       |-> user_language,
                             is_mock             |-> TRUE]]

(***************************************************************************)
(* One call of generate_conversational_response.  backend is what          *)
(* self._model.generate_content does if the call reaches it: it returns a  *)
(* text, does not answer within the timeout, or raises.                    *)
(***************************************************************************)

\* what a call does: its result and how often it invoked generate_content
Returned(response, n) ==
    [result        |-> [outcome |-> "returned", response |-> response],
     backend_calls |-> n]

Raised(type, message, n) ==
    [result        |-> [outcome |-> "raised",
                        error   |-> [type |-> type, message |-> message]],
     backend_calls |-> n]

\* the outer handler: any exception becomes a ConnectionError
WrapError(message, n) ==
    Raised("ConnectionError",
           "Conversational AI response generation failed: " \o message, n)

\* the call with one more submit of generate_content after a timeout
generate_conversational_response_RetryOnTimeout(model_ready, text, conversation_history, location, use_mock, backend) ==
    IF use_mock \/ ~model_ready
    THEN Returned(generate_mock_response(text, conversation_history), 0)
    ELSE IF BlankOf[text]
    THEN Raised("ValueError", "Text input cannot be empty", 0)
    ELSE IF consultation_completed(conversation_history)
    THEN Returned(CompletedResponse(conversation_history, LanguageOf[text]), 0)
    ELSE IF backend.kind = "timeout"
    THEN WrapError("AI service request timed out", 2)
    ELSE IF backend.kind = "raise"
    THEN WrapError(backend.message, 1)
    ELSE Returned(BackendResponse(text, conversation_history, location,
                                  backend.text), 1)

generate_conversational_response(model_ready, text, conversation_history, location, use_mock, backend) ==
    IF use_mock \/ ~model_ready
    THEN Returned(generate_mock_response(text, conversation_history), 0)
    ELSE IF BlankOf[text]
    THEN Raised("ValueError", "Text input cannot be empty", 0)
    ELSE IF consultation_completed(conversation_history)
    THEN Returned(CompletedResponse(conversation_history, LanguageOf[text]), 0)
    ELSE IF backend.kind = "timeout"
    THEN WrapError("AI service request timed out", 1)
    ELSE IF backend.kind = "raise"
    THEN WrapError(backend.message, 1)
    ELSE Returned(BackendResponse(text, conversation_history, location,
                                  backend.text), 1)

(***************************************************************************)
(* GeminiClient.generate_response: one triage call with retrieval.  search *)
(* is what search_medical_documents does, backend what generate_content    *)
(* does if the call reaches it (the call sets no timeout on it).           *)
(***************************************************************************)

\* search_medical_documents: the documents, or the error it raises
search_medical_documents(search) ==
    IF search.kind = "results"
    THEN [outcome |-> "returned", results |-> search.results]
    ELSE IF search.kind = "timeout"
    THEN [outcome |-> "raised",
          error   |-> [type |-> "ConnectionError",
                       message |-> "Search request timed out"]]
    ELSE [outcome |-> "raised",
          error   |-> [type |-> "Exception", message |-> search.message]]

\* the outer handler of generate_response
WrapGenerateError(message, n) ==
    Raised("ConnectionError", "AI response generation failed: " \o message, n)

\* the AIResponse built from the text generate_content returned
GenerateResponse(text, location, backend_text) ==
    LET response_text == IF backend_text = "" THEN FallbackText
                         ELSE backend_text
        parsed        == ParsedOf[response_text]
    IN  [text           |-> response_text,
         brief_text     |-> parsed.brief_text,
         detailed_text  |-> parsed.detailed_text,
         function_calls |->
             IF location # None /\ AsksForHelpOf[text]
             THEN <<SearchHospitalsCall(location.latitude, location.longitude)>>
             ELSE <<>>]

generate_response(model_ready, text, location, search, backend) ==
    IF ~model_ready
    THEN Raised("ConnectionError", "Vertex AI client not initialized", 0)
    ELSE IF BlankOf[text]
    THEN Raised("ValueError", "Text input cannot be empty", 0)
    ELSE LET search_results == search_medical_documents(search)
         IN  IF search_results.outcome = "raised"
             THEN WrapGenerateError(search_results.error.message, 0)
             ELSE IF backend.kind = "raise"
             THEN WrapGenerateError(backend.message, 1)
             ELSE Returned(GenerateResponse(text, location, backend.text), 1)

(***************************************************************************)
(* The conversation: the caller owns the history, passes it to every call  *)
(* and appends the user message and the returned text afterwards.          *)
(***************************************************************************)

\* ServiceManager.__init__: two clients without connection, not initialized
NewServiceManager ==
    [gemini_client |-> [model |-> FALSE],
     maps_client   |-> [client |-> FALSE],
     initialized   |-> FALSE]

\* number of requests the process serves at the same time
NumRequests == 2
Requests == 1..NumRequests

Init == /\ model = FALSE
        /\ history = <<>>
        /\ call = None
        /\ result = None
        /\ invoked = 0
        /\ phase = "idle"
        /\ lastStage = "none"
        /\ pc = [r \in Requests |-> "idle"]
        /\ worker = [r \in Requests |-> "idle"]
        /\ loopHolder = 0
        /\ service_manager = NewServiceManager

\* initialize(): the model is created, or ConnectionError is raised
Initialize ==
    /\ \E ok \in BOOLEAN : model' = (IF ok THEN TRUE ELSE model)
    /\ UNCHANGED <<history, call, result, invoked, phase, lastStage, loopVars, managerVars>>

\* close()
Close ==
    /\ model' = FALSE
    /\ UNCHANGED <<history, call, result, invoked, phase, lastStage, loopVars, managerVars>>

\* one call of generate_conversational_response on the current history
Call ==
    /\ phase = "idle"
    /\ \E text \in UserTexts, location \in Locations, use_mock \in BOOLEAN,
          backend \in BackendOutcomes,
          conversation_history \in
              {Given(history)} \cup (IF history = <<>> THEN {NoHistory} ELSE {}) :
          LET r == generate_conversational_response(
                       model, text, conversation_history, location, use_mock, backend)
          IN  /\ call' = [text |-> text,
                          conversation_history |-> conversation_history,
                          location |-> location,
                          use_mock |-> use_mock]
              /\ result' = r.result
              /\ invoked' = r.backend_calls
    /\ phase' = "returned"
    /\ UNCHANGED <<model, history, lastStage, loopVars, managerVars>>

\* the caller appends the user message and the assistant text and keeps the
\* stage it was told
CallerAppend ==
    /\ phase = "returned"
    /\ result.outcome = "returned"
    /\ Len(history) + 2 <= MaxTurns
    /\ history' = history \o <<[role |-> "user", content |-> call.text],
                               [role |-> "assistant", content |-> result.response.text]>>
    /\ lastStage' = result.response.metadata.assessment_stage
    /\ call' = None
    /\ result' = None
    /\ invoked' = 0
    /\ phase' = "idle"
    /\ UNCHANGED <<model, loopVars, managerVars>>

\* after an error nothing is appended; the caller may call again
CallerRetry ==
    /\ phase = "returned"
    /\ result.outcome = "raised"
    /\ call' = None
    /\ result' = None
    /\ invoked' = 0
    /\ phase' = "idle"
    /\ UNCHANGED <<model, history, lastStage, loopVars, managerVars>>

\* the caller starts or resumes another conversation
StartConversation ==
    /\ \E h \in StartHistories : history' = h
    /\ call' = None
    /\ result' = None
    /\ invoked' = 0
    /\ phase' = "idle"
    /\ lastStage' = "none"
    /\ UNCHANGED <<model, loopVars, managerVars>>

\* one call of GeminiClient.generate_response, outside any conversation; the
\* client serving it is initialised or not
TriageCall ==
    /\ phase = "idle"
    /\ history = <<>>
    /\ lastStage = "none"
    /\ \E model_ready \in BOOLEAN, text \in TriageTexts, location \in Locations,
          search \in SearchOutcomes,
          backend \in {b \in BackendOutcomes : b.kind # "timeout"}
                          \cup {[kind |-> "text", text |-> t] : t \in ParserTexts} :
          LET r == generate_response(model_ready, text, location, search, backend)
          IN  /\ call' = [text        |-> text,
                          location    |-> location,
                          model_ready |-> model_ready,
                          search      |-> search,
                          backend     |-> backend]
              /\ result' = r.result
              /\ invoked' = r.backend_calls
    /\ phase' = "triaged"
    /\ UNCHANGED <<model, history, lastStage, loopVars, managerVars>>

\* the answer or the error of the triage call has been handed over
TriageDone ==
    /\ phase = "triaged"
    /\ call' = None
    /\ result' = None
    /\ invoked' = 0
    /\ phase' = "idle"
    /\ UNCHANGED <<model, history, lastStage, loopVars, managerVars>>

Next ==
    \/ Initialize
    \/ Close
    \/ Call
    \/ CallerAppend
    \/ CallerRetry
    \/ StartConversation
    \/ TriageCall
    \/ TriageDone

Spec == Init /\ [][Next]_vars

(***************************************************************************)
(* The process: one asyncio event loop runs the coroutines of all          *)
(* requests.  A coroutine runs only while no synchronous call occupies the *)
(* loop thread; the thread of a ThreadPoolExecutor runs beside the loop.   *)
(***************************************************************************)

\* a request arrives and its handler coroutine is scheduled
Arrive(r) ==
    /\ pc[r] = "idle"
    /\ pc' = [pc EXCEPT ![r] = "accepted"]
    /\ UNCHANGED <<worker, loopHolder, convVars, managerVars>>

\* generate_conversational_response: executor.submit(generate_content) and
\* `await asyncio.wait_for(asyncio.wrap_future(future), timeout=15.0)`
Submit(r) ==
    /\ loopHolder = 0
    /\ pc[r] = "accepted"
    /\ pc' = [pc EXCEPT ![r] = "awaiting"]
    /\ worker' = [worker EXCEPT ![r] = "running"]
    /\ UNCHANGED <<loopHolder, convVars, managerVars>>

\* generate_content returns or raises, in whatever thread runs it; nothing
\* obliges the backend to answer
BackendAnswers(r) ==
    /\ worker[r] = "running"
    /\ \E w \in {"returned", "raised"} : worker' = [worker EXCEPT ![r] = w]
    /\ UNCHANGED <<pc, loopHolder, convVars, managerVars>>

\* the awaited future is done: wait_for hands over its result, the `with`
\* block ends and shutdown(wait=True) finds the worker thread finished
Resume(r) ==
    /\ loopHolder = 0
    /\ pc[r] = "awaiting"
    /\ worker[r] # "running"
    /\ pc' = [pc EXCEPT ![r] = IF worker[r] = "returned" THEN "returned"
                                 ELSE "raised_error"]
    /\ UNCHANGED <<worker, loopHolder, convVars, managerVars>>

\* 15 s have passed without an answer: wait_for raises TimeoutError, which
\* leaves the `with` block through ThreadPoolExecutor.__exit__, that is
\* shutdown(wait=True): the loop thread joins the worker thread
Timeout(r) ==
    /\ loopHolder = 0
    /\ pc[r] = "awaiting"
    /\ worker[r] = "running"
    /\ pc' = [pc EXCEPT ![r] = "shutdown"]
    /\ loopHolder' = r
    /\ UNCHANGED <<worker, convVars, managerVars>>

\* the worker thread has ended: shutdown returns, TimeoutError reaches
\* `except asyncio.TimeoutError` and ConnectionError is raised
ShutdownReturns(r) ==
    /\ pc[r] = "shutdown"
    /\ worker[r] # "running"
    /\ pc' = [pc EXCEPT ![r] = "raised_timeout"]
    /\ loopHolder' = 0
    /\ UNCHANGED <<worker, convVars, managerVars>>

\* process_request -> GeminiClient.generate_response: generate_content is
\* called synchronously inside the coroutine, on the loop thread
BlockingGenerate(r) ==
    /\ loopHolder = 0
    /\ pc[r] = "accepted"
    /\ pc' = [pc EXCEPT ![r] = "blocking"]
    /\ worker' = [worker EXCEPT ![r] = "running"]
    /\ loopHolder' = r
    /\ UNCHANGED <<convVars, managerVars>>

\* the synchronous generate_content call is over and the coroutine goes on
BlockingReturns(r) ==
    /\ pc[r] = "blocking"
    /\ worker[r] # "running"
    /\ pc' = [pc EXCEPT ![r] = IF worker[r] = "returned" THEN "returned"
                                 ELSE "raised_error"]
    /\ loopHolder' = 0
    /\ UNCHANGED <<worker, convVars, managerVars>>

\* the response or the error is sent; the slot serves the next request
Finish(r) ==
    /\ loopHolder = 0
    /\ pc[r] \in {"returned", "raised_error", "raised_timeout"}
    /\ pc' = [pc EXCEPT ![r] = "idle"]
    /\ worker' = [worker EXCEPT ![r] = "idle"]
    /\ UNCHANGED <<loopHolder, convVars, managerVars>>

LoopNext ==
    \E r \in Requests :
        \/ Arrive(r)
        \/ Submit(r)
        \/ BackendAnswers(r)
        \/ Resume(r)
        \/ Timeout(r)
        \/ ShutdownReturns(r)
        \/ BlockingGenerate(r)
        \/ BlockingReturns(r)
        \/ Finish(r)

LoopSpec == Init /\ [][LoopNext]_vars

(***************************************************************************)
(* detect_language applied to texts put together from two fragments        *)
(***************************************************************************)

\* nothing, English, an English word holding "apa", Spanish indicators, a
\* Hangul syllable, a compatibility jamo, a conjoining jamo (U+1112), the
\* hiragana U+3042 and U+307E, a katakana, an ideograph, punctuation
Fragments ==
    {"", "I have a headache", "my apartment", "Hospital", "me duele",
     "~54620", "~12593", "~04370", "~12354", "~12414", "~12459", "~38957",
     "!", " "}

DetectTexts == {a \o b : a, b \in Fragments}

DetectInit ==
    /\ model = FALSE
    /\ history = <<>>
    /\ \E text \in DetectTexts : call = [text |-> text]
    /\ result = None
    /\ invoked = 0
    /\ phase = "text"
    /\ lastStage = "none"
    /\ pc = [r \in Requests |-> "idle"]
    /\ worker = [r \in Requests |-> "idle"]
    /\ loopHolder = 0
    /\ service_manager = NewServiceManager

\* both modules' detect_language applied to the text
DetectLanguage ==
    /\ phase = "text"
    /\ result' = [conversational |-> detect_language(call.text),
                  ai_service     |-> ai_service_detect_language(call.text)]
    /\ phase' = "detected"
    /\ UNCHANGED <<model, history, call, invoked, lastStage, loopVars, managerVars>>

DetectNext == DetectLanguage

DetectSpec == DetectInit /\ [][DetectNext]_vars

(***************************************************************************)
(* GoogleMapsClient.search_hospitals.  Degrees are counted in 1e-4 degree, *)
(* the radius in metres, distances in 0.01 km, ratings in tenths.  A       *)
(* float is a record: NaN, or a number.                                    *)
(***************************************************************************)

NaN == [nan |-> TRUE, v |-> 0]
Num(v) == [nan |-> FALSE, v |-> v]

\* a <= b and a > b on floats: false as soon as one side is NaN
Le(a, b) == ~a.nan /\ ~b.nan /\ a.v <= b.v
Gt(a, b) == ~a.nan /\ ~b.nan /\ a.v > b.v

\* the radius test with `>=` for `>`: 50 km is refused, 50.001 km accepted
ValidationError_RadiusLimitOff(latitude, longitude, radius_km) ==
    IF ~(Le(Num(-900000), latitude) /\ Le(latitude, Num(900000)))
    THEN "Invalid latitude"
    ELSE IF ~(Le(Num(-1800000), longitude) /\ Le(longitude, Num(1800000)))
    THEN "Invalid longitude"
    ELSE IF Le(radius_km, Num(0)) \/ radius_km = Num(50000)
    THEN "Invalid radius"
    ELSE "none"

\* the three tests before the try block: the message of the ValueError they
\* raise (without the number it quotes), or "none"
ValidationError(latitude, longitude, radius_km) ==
    IF ~(Le(Num(-900000), latitude) /\ Le(latitude, Num(900000)))
    THEN "Invalid latitude"
    ELSE IF ~(Le(Num(-1800000), longitude) /\ Le(longitude, Num(1800000)))
    THEN "Invalid longitude"
    ELSE IF Le(radius_km, Num(0)) \/ Gt(radius_km, Num(50000))
    THEN "Invalid radius"
    ELSE "none"

\* _calculate_distance for two points of one meridian, where the haversine
\* formula gives 6371 km times the latitude difference in radians
\* (1.11195 hundredths of a km for 1e-4 degree), rounded by
\* round(distance_km, 2)
calculate_distance(lat1, lon1, lat2, lon2) ==
    LET d == IF lat2 >= lat1 THEN lat2 - lat1 ELSE lat1 - lat2
    IN  (111195 * d + 50000) \div 100000

\* place_location has both 'lat' and 'lng'; a 'geometry' that is no dict
\* raises inside the loop's try block and the place is skipped as well
HasCoordinate(place) ==
    /\ "geometry" \in DOMAIN place
    /\ "location" \in DOMAIN place.geometry
    /\ "lat" \in DOMAIN place.geometry.location
    /\ "lng" \in DOMAIN place.geometry.location

\* the HospitalResult with '' as the default of a missing name
MakeHospitalResult_EmptyNameDefault(latitude, longitude, place) ==
    [name        |-> IF "name" \in DOMAIN place THEN place.name ELSE "",
     address     |-> IF "vicinity" \in DOMAIN place THEN place.vicinity
                     ELSE "Address not available",
     distance_km |-> calculate_distance(latitude, longitude,
                                        place.geometry.location.lat,
                                        place.geometry.location.lng),
     place_id    |-> IF "place_id" \in DOMAIN place THEN place.place_id ELSE "",
     rating      |-> IF "rating" \in DOMAIN place THEN Num(place.rating) ELSE NaN]

\* the HospitalResult built from a place that has a coordinate
MakeHospitalResult(latitude, longitude, place) ==
    [name        |-> IF "name" \in DOMAIN place THEN place.name ELSE "Unknown",
     address     |-> IF "vicinity" \in DOMAIN place THEN place.vicinity
                     ELSE "Address not available",
     distance_km |-> calculate_distance(latitude, longitude,
                                        place.geometry.location.lat,
                                        place.geometry.location.lng),
     place_id    |-> IF "place_id" \in DOMAIN place THEN place.place_id ELSE "",
     rating      |-> IF "rating" \in DOMAIN place THEN Num(place.rating) ELSE NaN]

\* the Field constraints of HospitalResult (rating None is the record NaN)
HospitalResultIsValid(r) ==
    /\ Len(r.name) >= 1
    /\ Len(r.address) >= 1
    /\ r.distance_km >= 0
    /\ Len(r.place_id) >= 1
    /\ r.rating.nan \/ (r.rating.v >= 0 /\ r.rating.v <= 50)

\* the loop over all_places: a place without coordinate is skipped, and so
\* is a place whose HospitalResult raises
RECURSIVE ProcessPlaces(_, _, _)
ProcessPlaces(latitude, longitude, all_places) ==
    IF all_places = <<>> THEN <<>>
    ELSE LET place == Head(all_places)
             rest  == ProcessPlaces(latitude, longitude, Tail(all_places))
         IN  IF ~HasCoordinate(place) THEN rest
             ELSE LET hospital_result == MakeHospitalResult(latitude, longitude, place)
                  IN  IF HospitalResultIsValid(hospital_result)
                      THEN <<hospital_result>> \o rest
                      ELSE rest

\* results.sort(key=lambda x: x.distance_km): stable
RECURSIVE SortByDistance(_)
SortByDistance(results) ==
    IF results = <<>> THEN <<>>
    ELSE LET x      == results[Len(results)]
             sorted == SortByDistance(SubSeq(results, 1, Len(results) - 1))
             k      == Cardinality({i \in 1..Len(sorted) :
                                        sorted[i].distance_km <= x.distance_km})
         IN  SubSeq(sorted, 1, k) \o <<x>> \o SubSeq(sorted, k + 1, Len(sorted))

\* results[:10]
MaxResults == 10
Truncate(results) ==
    SubSeq(results, 1, IF Len(results) < MaxResults THEN Len(results) ELSE MaxResults)

\* the outer handlers of search_hospitals
WrapSearchError(message, n) ==
    Raised("ConnectionError", "Hospital search failed: " \o message, n)

\* hospital and pharmacy are what the two places_nearby requests do: the
\* places they return, or the error they raise; backend_calls counts the
\* places_nearby requests sent
search_hospitals(client_ready, latitude, longitude, radius_km, hospital, pharmacy) ==
    IF ~client_ready
    THEN Raised("ConnectionError", "Google Maps client not initialized", 0)
    ELSE IF ValidationError(latitude, longitude, radius_km) # "none"
    THEN Raised("ValueError", ValidationError(latitude, longitude, radius_km), 0)
    ELSE IF radius_km.nan
    THEN WrapSearchError("cannot convert float NaN to integer", 0)
    ELSE IF hospital.kind = "raise"
    THEN WrapSearchError(hospital.message, 1)
    ELSE IF pharmacy.kind = "raise"
    THEN WrapSearchError(pharmacy.message, 2)
    ELSE LET all_places == hospital.results \o pharmacy.results
             results    == ProcessPlaces(latitude.v, longitude.v, all_places)
         IN  [result        |-> [outcome |-> "returned",
                                 results |-> Truncate(SortByDistance(results))],
              backend_calls |-> 2]

\* arguments of search_hospitals
Latitudes == {Num(377749), Num(900000), Num(950000), Num(-900001), NaN}
Longitudes == {Num(-1224194), Num(1800000), Num(1800001), NaN}
Radii ==
    {Num(10000), Num(500), Num(50000), Num(50001), Num(0), Num(-1000), NaN}

\* places of a provider answer, dlat away from the centre on its meridian:
\* complete, without name, vicinity and rating, without place_id, with a
\* rating of 5.5, without geometry, without 'lng'
Complete(i, dlat) ==
    [name |-> "Hospital " \o Digit(i), vicinity |-> "100 Hospital St",
     place_id |-> "place_id_" \o Digit(i), rating |-> 42, dlat |-> dlat]
Bare(i, dlat) == [place_id |-> "place_id_" \o Digit(i), dlat |-> dlat]
NoPlaceId(i, dlat) ==
    [name |-> "Hospital " \o Digit(i), vicinity |-> "100 Hospital St",
     rating |-> 42, dlat |-> dlat]
OverRated(i, dlat) ==
    [name |-> "Hospital " \o Digit(i), vicinity |-> "100 Hospital St",
     place_id |-> "place_id_" \o Digit(i), rating |-> 55, dlat |-> dlat]
NoGeometry(i) ==
    [name |-> "Hospital " \o Digit(i), vicinity |-> "100 Hospital St",
     place_id |-> "place_id_" \o Digit(i), rating |-> 42]
NoLng(i, dlat) ==
    [name |-> "Hospital " \o Digit(i), vicinity |-> "100 Hospital St",
     place_id |-> "place_id_" \o Digit(i), rating |-> 42, dlat |-> dlat,
     no_lng |-> TRUE]

\* places without 'name', without 'vicinity', without 'rating', and with
\* 'geometry': None
NoName(i, dlat) ==
    [vicinity |-> "100 Hospital St", place_id |-> "place_id_" \o Digit(i),
     rating |-> 42, dlat |-> dlat]
NoVicinity(i, dlat) ==
    [name |-> "Hospital " \o Digit(i), place_id |-> "place_id_" \o Digit(i),
     rating |-> 42, dlat |-> dlat]
NoRating(i, dlat) ==
    [name |-> "Hospital " \o Digit(i), vicinity |-> "100 Hospital St",
     place_id |-> "place_id_" \o Digit(i), dlat |-> dlat]
NullGeometry(i) ==
    [name |-> "Hospital " \o Digit(i), vicinity |-> "100 Hospital St",
     place_id |-> "place_id_" \o Digit(i), rating |-> 42, geometry |-> None]

\* number of places of the long provider answers
MaxPlaces == 7

HospitalAnswers ==
    {<<>>,
     <<Complete(1, 300)>>,
     <<Complete(1, 500), Complete(2, -100), Bare(3, 100)>>,
     <<Complete(1, 200), NoGeometry(2), NoLng(3, 100)>>,
     <<NoPlaceId(1, 200), Complete(2, 50)>>,
     <<OverRated(1, 10)>>,
     <<NoName(1, 200), NoVicinity(2, 100), NoRating(3, 300), NullGeometry(4)>>,
     [i \in 1..MaxPlaces |-> Complete(i, 100 * (MaxPlaces + 1 - i))]}

PharmacyAnswers ==
    {<<>>,
     <<Complete(8, 400), Complete(9, 100)>>,
     [i \in 1..(MaxPlaces - 1) |-> Bare(i, 150 * i)]}

PlacesOutcomes(answers) ==
    {[kind |-> "results", places |-> a] : a \in answers}
        \cup {[kind |-> "raise", message |-> "OVER_QUERY_LIMIT"]}

\* the place as places_nearby returns it for the centre of the request
PlaceAt(latitude, longitude, p) ==
    LET kept     == DOMAIN p \ {"dlat", "no_lng"}
        location == IF "no_lng" \in DOMAIN p
                    THEN [lat |-> latitude + p.dlat]
                    ELSE [lat |-> latitude + p.dlat, lng |-> longitude]
        geometry == [geometry |-> [location |-> location]]
    IN  IF "dlat" \in DOMAIN p
        THEN [k \in kept \cup {"geometry"} |->
                 IF k = "geometry" THEN geometry.geometry ELSE p[k]]
        ELSE [k \in kept |-> p[k]]

PlacesNearby(latitude, longitude, outcome) ==
    IF outcome.kind = "raise" \/ latitude.nan \/ longitude.nan THEN outcome
    ELSE [kind    |-> "results",
          results |-> [i \in 1..Len(outcome.places) |->
                          PlaceAt(latitude.v, longitude.v, outcome.places[i])]]

SearchInit ==
    /\ model = FALSE
    /\ history = <<>>
    /\ \E client_ready \in BOOLEAN, latitude \in Latitudes,
          longitude \in Longitudes, radius_km \in Radii,
          hospital \in PlacesOutcomes(HospitalAnswers),
          pharmacy \in PlacesOutcomes(PharmacyAnswers) :
          call = [client_ready |-> client_ready,
                  latitude     |-> latitude,
                  longitude    |-> longitude,
                  radius_km    |-> radius_km,
                  hospital     |-> PlacesNearby(latitude, longitude, hospital),
                  pharmacy     |-> PlacesNearby(latitude, longitude, pharmacy)]
    /\ result = None
    /\ invoked = 0
    /\ phase = "request"
    /\ lastStage = "none"
    /\ pc = [r \in Requests |-> "idle"]
    /\ worker = [r \in Requests |-> "idle"]
    /\ loopHolder = 0
    /\ service_manager = NewServiceManager

\* one call of search_hospitals
SearchHospitals ==
    /\ phase = "request"
    /\ LET r == search_hospitals(call.client_ready, call.latitude, call.longitude,
                                 call.radius_km, call.hospital, call.pharmacy)
       IN  /\ result' = r.result
           /\ invoked' = r.backend_calls
    /\ phase' = "searched"
    /\ UNCHANGED <<model, history, call, lastStage, loopVars, managerVars>>

SearchNext == SearchHospitals

SearchSpec == SearchInit /\ [][SearchNext]_vars

(***************************************************************************)
(* MultimodalHandler.process_request: sanitize the text, validate location *)
(* and image, ask the AI client, run the facility lookups it asks for and  *)
(* build the ChatResponse.                                                 *)
(***************************************************************************)

\* validate_location: the Location model admits no coordinate out of range
validate_location(location) ==
    IF location = None THEN [outcome |-> "returned", location |-> None]
    ELSE IF ~(location.latitude >= -900000 /\ location.latitude <= 900000
              /\ location.longitude >= -1800000 /\ location.longitude <= 1800000)
    THEN HTTPException(400, "INVALID_LOCATION")
    ELSE [outcome |-> "returned", location |-> location]

\* validate_image on what the upload turns out to be
validate_image(image) ==
    IF image.kind = "valid" THEN [outcome |-> "returned"]
    ELSE HTTPException(image.status_code, image.code)

uncertainty_keywords ==
    {"uncertain", "unsure", "might", "could", "possibly", "seek immediate",
     "consult doctor", "emergency"}

determine_confidence_level(advice_text, has_image, has_hospitals) ==
    LET has_uncertainty == ContainsAny(Lower(advice_text), uncertainty_keywords)
        confidence_indicators ==
            (IF has_image THEN 1 ELSE 0)
          + (IF CharLen(advice_text) > 100 THEN 1 ELSE 0)
          + (IF ~has_uncertainty THEN 1 ELSE 0)
    IN  IF confidence_indicators >= 3 THEN "high"
        ELSE IF confidence_indicators >= 2 THEN "medium"
        ELSE "low"

\* `not x` on a coordinate of a function call (the calls generate_response
\* builds carry both coordinates, so the coordinate is a number)
Falsy(x) == x = 0

\* execute_function_calls: every search_hospitals call is run against the
\* location client; a call that raises is logged and skipped.  lookups
\* lists the outcome of each search_hospitals call made.
RECURSIVE execute_function_calls(_, _, _, _, _)
execute_function_calls(function_calls, location, client_ready, hospital, pharmacy) ==
    IF function_calls = <<>>
    THEN [results |-> <<>>, lookups |-> <<>>, backend_calls |-> 0]
    ELSE LET func_call == Head(function_calls)
             rest      == execute_function_calls(Tail(function_calls), location,
                                                 client_ready, hospital, pharmacy)
             params    == func_call.parameters
             missing   == Falsy(params.latitude) \/ Falsy(params.longitude)
             lat       == IF missing THEN location.latitude ELSE params.latitude
             lng       == IF missing THEN location.longitude ELSE params.longitude
             found     == search_hospitals(client_ready, Num(lat), Num(lng),
                                           Num(params.radius_km * 1000),
                                           PlacesNearby(Num(lat), Num(lng), hospital),
                                           PlacesNearby(Num(lat), Num(lng), pharmacy))
         IN  IF func_call.name # "search_hospitals" \/ (missing /\ location = None)
             THEN rest
             ELSE [results       |-> (IF found.result.outcome = "raised" THEN <<>>
                                      ELSE found.result.results) \o rest.results,
                   lookups       |-> <<found.result>> \o rest.lookups,
                   backend_calls |-> found.backend_calls + rest.backend_calls]

\* the ChatResponse, or the error of its validation (advice must not be
\* empty), with what the request did on the way
ChatResponse(ai, executed, has_image) ==
    LET advice    == ai.result.response.text
        hospitals == executed.results
    IN  IF advice = ""
        THEN HTTPException(500, "PROCESSING_ERROR")
        ELSE [outcome  |-> "returned",
              response |-> [advice           |-> advice,
                            hospitals        |-> IF hospitals = <<>> THEN None
                                                 ELSE hospitals,
                            confidence_level |->
                                determine_confidence_level(advice, has_image,
                                                           hospitals # <<>>)]]

\* the steps after the AI call with a failed lookup failing the request
AfterTriage_LookupFailureFails(ai, location, has_image, client_ready, hospital, pharmacy) ==
    LET executed == execute_function_calls(ai.result.response.function_calls,
                                           location, client_ready, hospital, pharmacy)
        failed   == \E i \in 1..Len(executed.lookups) :
                        executed.lookups[i].outcome = "raised"
    IN  [result   |-> IF failed THEN HTTPException(500, "PROCESSING_ERROR")
                      ELSE ChatResponse(ai, executed, has_image),
         lookups  |-> executed.lookups,
         nearby   |-> executed.backend_calls]

\* the steps after a successful AI call: the lookups and the response
AfterTriage(ai, location, has_image, client_ready, hospital, pharmacy) ==
    LET executed == execute_function_calls(ai.result.response.function_calls,
                                           location, client_ready, hospital, pharmacy)
    IN  [result   |-> ChatResponse(ai, executed, has_image),
         lookups  |-> executed.lookups,
         nearby   |-> executed.backend_calls]

\* a request that ended before the AI client was asked
Rejected(error) ==
    [result |-> error, handed |-> <<>>, ai |-> None, lookups |-> <<>>,
     generated |-> 0, nearby |-> 0]

\* handed lists the texts given to generate_response, ai is what it did,
\* generated and nearby count the generate_content and places_nearby
\* requests
process_request(text, location, image, model_ready, search, backend, client_ready, hospital, pharmacy) ==
    LET sanitized == SanitizedOf[text]
        validated == validate_location(location)
    IN  IF sanitized.outcome = "raised" THEN Rejected(sanitized)
        ELSE IF validated.outcome = "raised" THEN Rejected(validated)
        ELSE IF image # None /\ validate_image(image).outcome = "raised"
        THEN Rejected(validate_image(image))
        ELSE LET ai == generate_response(model_ready, sanitized.text,
                                         validated.location, search, backend)
             IN  IF ai.result.outcome = "raised"
                 THEN [result    |-> HTTPException(503, "AI_SERVICE_ERROR"),
                       handed    |-> <<sanitized.text>>,
                       ai        |-> ai.result,
                       lookups   |-> <<>>,
                       generated |-> ai.backend_calls,
                       nearby    |-> 0]
                 ELSE LET after == AfterTriage(ai, validated.location, image # None,
                                               client_ready, hospital, pharmacy)
                      IN  [result    |-> after.result,
                           handed    |-> <<sanitized.text>>,
                           ai        |-> ai.result,
                           lookups   |-> after.lookups,
                           generated |-> ai.backend_calls,
                           nearby    |-> after.nearby]

\* what the requests are made with
RequestLocations ==
    Locations \cup {[latitude |-> 0, longitude |-> 0]}

Images ==
    {None, [kind |-> "valid"],
     [kind |-> "rejected", status_code |-> 413, code |-> "IMAGE_TOO_LARGE"]}

RequestBackends ==
    {[kind |-> "text", text |-> "It may be a common cold."],
     [kind |-> "text", text |-> ""],
     [kind |-> "raise", message |-> "503 Service Unavailable"]}

RequestSearches ==
    {o \in SearchOutcomes : o.kind = "timeout" \/ (o.kind = "results" /\ o.results = <<>>)}

RequestHospitals ==
    {[kind |-> "results", places |-> <<Complete(1, 300), Bare(2, 100)>>],
     [kind |-> "results", places |-> <<>>],
     [kind |-> "raise", message |-> "OVER_QUERY_LIMIT"]}

RequestPharmacies ==
    {[kind |-> "results", places |-> <<>>],
     [kind |-> "raise", message |-> "REQUEST_DENIED"]}

RequestInit ==
    /\ model = FALSE
    /\ history = <<>>
    /\ \E text \in RequestTexts, location \in RequestLocations, image \in Images,
          model_ready \in BOOLEAN, search \in RequestSearches,
          backend \in RequestBackends, client_ready \in BOOLEAN,
          hospital \in RequestHospitals, pharmacy \in RequestPharmacies :
          call = [text         |-> text,
                  location     |-> location,
                  image        |-> image,
                  model_ready  |-> model_ready,
                  search       |-> search,
                  backend      |-> backend,
                  client_ready |-> client_ready,
                  hospital     |-> hospital,
                  pharmacy     |-> pharmacy]
    /\ result = None
    /\ invoked = 0
    /\ phase = "request"
    /\ lastStage = "none"
    /\ pc = [r \in Requests |-> "idle"]
    /\ worker = [r \in Requests |-> "idle"]
    /\ loopHolder = 0
    /\ service_manager = NewServiceManager

\* one call of process_request
ProcessRequest ==
    /\ phase = "request"
    /\ LET r == process_request(call.text, call.location, call.image,
                                call.model_ready, call.search, call.backend,
                                call.client_ready, call.hospital, call.pharmacy)
       IN  /\ result' = r
           /\ invoked' = r.generated
    /\ phase' = "processed"
    /\ UNCHANGED <<model, history, call, lastStage, loopVars, managerVars>>

RequestNext == ProcessRequest

RequestSpec == RequestInit /\ [][RequestNext]_vars

(***************************************************************************)
(* ServiceManager: initialize_all and cleanup.  A client's initialize      *)
(* either sets its connection (_model, _client) or raises ConnectionError  *)
(* and leaves it as it was; close drops the connection and never raises.   *)
(***************************************************************************)

\* GeminiClient.initialize and GoogleMapsClient.initialize, ok telling
\* whether the credentials and the library calls succeed
gemini_initialize(client, ok) ==
    IF ok THEN [outcome |-> "returned", client |-> [client EXCEPT !.model = TRUE]]
    ELSE [outcome |-> "raised", client |-> client,
          error   |-> [type |-> "ConnectionError",
                       message |-> "Vertex AI initialization failed"]]

maps_initialize(client, ok) ==
    IF ok THEN [outcome |-> "returned", client |-> [client EXCEPT !.client = TRUE]]
    ELSE [outcome |-> "raised", client |-> client,
          error   |-> [type |-> "ConnectionError",
                       message |-> "Google Maps initialization failed"]]

\* GeminiClient.close and GoogleMapsClient.close
gemini_close(client) == [client EXCEPT !.model = FALSE]
maps_close(client) == [client EXCEPT !.client = FALSE]

\* ServiceManager.cleanup
cleanup(manager) ==
    [gemini_client |-> gemini_close(manager.gemini_client),
     maps_client   |-> maps_close(manager.maps_client),
     initialized   |-> FALSE]

\* the failure handler of initialize_all
InitializationFailed(manager, error) ==
    [manager |-> cleanup(manager),
     result  |-> [outcome |-> "raised",
                  error   |-> [type |-> "ConnectionError",
                               message |-> "Service initialization failed: "
                                               \o error.message]]]

\* initialize_all whose failure handler raises without the cleanup
initialize_all_NoCleanup(manager, gemini_ok, maps_ok) ==
    LET gemini == gemini_initialize(manager.gemini_client, gemini_ok)
        maps   == maps_initialize(manager.maps_client, maps_ok)
    IN  IF gemini.outcome = "raised"
        THEN [InitializationFailed(manager, gemini.error) EXCEPT !.manager = manager]
        ELSE IF maps.outcome = "raised"
        THEN [InitializationFailed(manager, maps.error) EXCEPT
                  !.manager = [manager EXCEPT !.gemini_client = gemini.client]]
        ELSE [manager |-> [gemini_client |-> gemini.client,
                           maps_client   |-> maps.client,
                           initialized   |-> TRUE],
              result  |-> [outcome |-> "returned"]]

\* ServiceManager.initialize_all
initialize_all(manager, gemini_ok, maps_ok) ==
    LET gemini == gemini_initialize(manager.gemini_client, gemini_ok)
        maps   == maps_initialize(manager.maps_client, maps_ok)
    IN  IF gemini.outcome = "raised"
        THEN InitializationFailed(manager, gemini.error)
        ELSE IF maps.outcome = "raised"
        THEN InitializationFailed([manager EXCEPT !.gemini_client = gemini.client],
                                  maps.error)
        ELSE [manager |-> [gemini_client |-> gemini.client,
                           maps_client   |-> maps.client,
                           initialized   |-> TRUE],
              result  |-> [outcome |-> "returned"]]

\* number of calls made on the manager in one run
MaxCalls == 4

\* history lists the calls made so far, call and result are the last one
ManagerInit ==
    /\ model = FALSE
    /\ history = <<>>
    /\ call = None
    /\ result = None
    /\ invoked = 0
    /\ phase = "constructed"
    /\ lastStage = "none"
    /\ pc = [r \in Requests |-> "idle"]
    /\ worker = [r \in Requests |-> "idle"]
    /\ loopHolder = 0
    /\ service_manager = NewServiceManager

InitializeAll ==
    /\ Len(history) < MaxCalls
    /\ \E gemini_ok, maps_ok \in BOOLEAN :
          LET r == initialize_all(service_manager, gemini_ok, maps_ok)
              c == [op |-> "initialize_all", gemini_ok |-> gemini_ok,
                    maps_ok |-> maps_ok]
          IN  /\ service_manager' = r.manager
              /\ result' = r.result
              /\ call' = c
              /\ history' = Append(history, c)
    /\ phase' = "called"
    /\ UNCHANGED <<model, invoked, lastStage, loopVars>>

Cleanup ==
    /\ Len(history) < MaxCalls
    /\ service_manager' = cleanup(service_manager)
    /\ result' = [outcome |-> "returned"]
    /\ call' = [op |-> "cleanup"]
    /\ history' = Append(history, [op |-> "cleanup"])
    /\ phase' = "called"
    /\ UNCHANGED <<model, invoked, lastStage, loopVars>>

ManagerNext ==
    \/ InitializeAll
    \/ Cleanup

ManagerSpec == ManagerInit /\ [][ManagerNext]_vars

(***************************************************************************)
(* Properties                                                              *)
(***************************************************************************)

\* the canonical completion phrases of the wire contract: "consultation
\* completed" and its Korean, Japanese and Spanish counterparts
CanonicalPhrases ==
    {"consultation completed", "~49345~45812~51060 ~50756~47308",
     "~30456~35527~12364~23436~20102", "consulta completada"}

\* the texts that contain a canonical completion phrase, in any letter case
CanonicalOf == [t \in Texts |-> ContainsAny(Lower(t), CanonicalPhrases)]

C2_NoTransitionLeavesFinal ==
    [][(lastStage = "final" /\ phase = "idle" /\ phase' = "returned"
          /\ invoked' = 1 /\ result'.outcome = "returned")
       => result'.response.metadata.assessment_stage
              \notin {"initial", "clarification"}]_vars

\* C3: a call on the real path with a non-blank text whose history holds an
\* assistant turn with one of the four canonical completion phrases returns
\* stage "completed" with no function call and without invoking the backend.
C3_CanonicalPhraseShortCircuits ==
    LET turns     == call.conversation_history.turns
        real_path == /\ ~call.use_mock
                     /\ ~(result.outcome = "returned"
                            /\ "is_mock" \in DOMAIN result.response.metadata)
    IN  (/\ phase = "returned"
         /\ real_path
         /\ ~BlankOf[call.text]
         /\ \E i \in 1..Len(turns) :
                /\ turns[i].role = "assistant"
                /\ CanonicalOf[turns[i].content])
        => /\ result.outcome = "returned"
           /\ result.response.metadata.assessment_stage = "completed"
           /\ result.response.function_calls = <<>>
           /\ invoked = 0

\* C4: a returned call carries a search_hospitals call if and only if its
\* stage is final, a location was supplied and the response text contains a
\* care-seeking or urgency keyword.
C4_LookupIffFinalLocatedAndSeekingCare ==
    (phase = "returned" /\ result.outcome = "returned")
    => ((result.response.function_calls # <<>>)
          <=> /\ result.response.metadata.assessment_stage = "final"
              /\ call.location # None
              /\ SeeksCareOf[result.response.text])

\* C5: a returned call carries either no function call or exactly one
\* search_hospitals call with the caller's latitude and longitude and
\* radius_km 10.
C5_LookupUsesCallerLocation ==
    (phase = "returned" /\ result.outcome = "returned"
        /\ result.response.function_calls # <<>>)
    => /\ call.location # None
       /\ result.response.function_calls =
              <<[name       |-> "search_hospitals",
                 parameters |-> [latitude  |-> call.location.latitude,
                                 longitude |-> call.location.longitude,
                                 radius_km |-> 10]]>>

C8_BlankTextIsRejected ==
    (phase = "returned" /\ BlankOf[call.text])
    => /\ result.outcome = "raised"
       /\ result.error.type = "ValueError"
       /\ invoked = 0

\* C9: a call whose 15 s timeout has elapsed does not wait for its backend
\* call: it is never held in the executor shutdown while generate_content
\* is still running.
C9_TimeoutAbandonsBackendCall ==
    \A r \in Requests : pc[r] = "shutdown" => worker[r] # "running"

\* C10: while one request's generate_content call is running, another
\* request that is ready to run (just accepted, or with its own answer
\* available) finds the event loop free.
C10_CallsDoNotSerialize ==
    \A r1, r2 \in Requests :
        (/\ r1 # r2
         /\ worker[r1] = "running"
         /\ \/ pc[r2] = "accepted"
            \/ pc[r2] = "awaiting" /\ worker[r2] # "running")
        => loopHolder = 0
\* C11: for a call that reached the backend and raised, the error the same
\* call raises when generate_content times out and the error it raises when
\* generate_content fails are both errors and are of two different kinds
\* (exception types).
C11_TimeoutAndFailureAreDistinctKinds ==
    (phase = "returned" /\ invoked = 1 /\ result.outcome = "raised")
    => LET on(backend) == generate_conversational_response(
                              TRUE, call.text, call.conversation_history,
                              call.location, call.use_mock, backend).result
           timed_out   == on([kind |-> "timeout"])
       IN  \A backend \in BackendOutcomes :
               backend.kind = "raise"
               => /\ timed_out.outcome = "raised"
                  /\ on(backend).outcome = "raised"
                  /\ timed_out.error.type # on(backend).error.type

\* C12: one call invokes generate_content at most once; a call rejected for
\* a blank text and a call short-circuited as already completed invoke it
\* zero times.
C12_BackendInvokedAtMostOnce ==
    phase = "returned"
    => /\ invoked <= 1
       /\ (result.outcome = "raised" /\ result.error.type = "ValueError")
              => invoked = 0
       /\ (/\ result.outcome = "returned"
           /\ result.response.metadata.assessment_stage = "completed")
              => invoked = 0

\* C12 witness: generate_content did not answer in time and the call ended
\* with an error after that single invocation.
C12_Witness ==
    /\ phase = "returned"
    /\ result.outcome = "raised"
    /\ result.error.message =
           "Conversational AI response generation failed: AI service request timed out"
    /\ invoked = 1

\* C13: a triage call (initialised client, non-blank text) during which
\* search_medical_documents failed or timed out, and whose generate_content
\* would answer, still returns that answer.
C13_RetrievalFailureDegrades ==
    (/\ phase = "triaged"
     /\ call.model_ready
     /\ ~BlankOf[call.text]
     /\ call.search.kind \in {"timeout", "raise"}
     /\ call.backend.kind = "text")
    => /\ result.outcome = "returned"
       /\ invoked = 1
       /\ result.response.text =
              (IF call.backend.text = "" THEN FallbackText ELSE call.backend.text)

\* the texts in which the "BRIEF:" or the "DETAILED:" marker is absent, or in
\* which the brief segment (before the first "DETAILED:", without "BRIEF:") or
\* the detailed segment (after the first "DETAILED:", up to the next one) is
\* empty after trimming
UnstructuredOf ==
    [t \in Texts |->
        \/ ~Contains(t, "BRIEF:")
        \/ ~Contains(t, "DETAILED:")
        \/ Strip(Remove(Split(t, "DETAILED:")[1], "BRIEF:")) = ""
        \/ Strip(Split(t, "DETAILED:")[2]) = ""]

C15_CannedReplyInDetectedLanguage ==
    (/\ phase = "returned"
     /\ result.outcome = "returned"
     /\ result.response.metadata.assessment_stage = "completed")
    => LET user_language == LanguageOf[call.text]
           response      == result.response
       IN  /\ user_language = "ko"
                  => /\ response.brief_text = CompletedBriefKo
                     /\ response.detailed_text = CompletedDetailedKo
           /\ user_language = "en"
                  => /\ response.brief_text = CompletedBriefEn
                     /\ response.detailed_text = CompletedDetailedEn
           /\ user_language \in {"ja", "es"}
                  => /\ response.brief_text \notin {CompletedBriefKo, CompletedBriefEn}
                     /\ response.detailed_text
                            \notin {CompletedDetailedKo, CompletedDetailedEn}

\* the Unicode blocks Hangul Syllables, Hangul Jamo, Hangul Compatibility
\* Jamo, Hangul Jamo Extended-A and Extended-B
HangulBlocks ==
    (44032..55215) \cup (4352..4607) \cup (12592..12687)
        \cup (43360..43391) \cup (55216..55295)

\* the Unicode blocks Hiragana, Katakana and CJK Unified Ideographs
JapaneseBlocks == (12352..12447) \cup (12448..12543) \cup (19968..40959)

\* C16: detect_language of the conversational client returns ko for every
\* text with a character of the Hangul syllable block or of a Hangul Jamo
\* block, whatever else the text holds.
C16_HangulHasFirstPriority ==
    (phase = "detected" /\ HasCodeIn(call.text, HangulBlocks))
    => result.conversational = "ko"

\* C17: detect_language (of either module) returns ja for every text with
\* no Hangul character and a Hiragana, Katakana or CJK Unified Ideograph
\* character.
C17_KanaAndIdeographsAreJapanese ==
    (/\ phase = "detected"
     /\ ~HasCodeIn(call.text, HangulBlocks)
     /\ HasCodeIn(call.text, JapaneseBlocks))
    => /\ result.conversational = "ja"
       /\ result.ai_service = "ja"

\* C18: detect_language of the conversational client returns one of en, ko,
\* ja, es, and en for every all-ASCII text whose lower-cased form without
\* punctuation holds no Spanish indicator word.
C18_AsciiWithoutSpanishIsEnglish ==
    phase = "detected"
    => /\ result.conversational \in {"en", "ko", "ja", "es"}
       /\ (/\ ~Contains(call.text, "~")
           /\ ~ContainsAny(StripPunct(Lower(call.text)), spanish_indicators))
              => result.conversational = "en"

\* a float outside the interval from lo to hi (bounds included)
Outside(x, lo, hi) == x.nan \/ x.v < lo \/ x.v > hi

\* C19: a call of search_hospitals with a latitude outside [-90, 90], a
\* longitude outside [-180, 180] or a radius outside (0, 50] km ends in an
\* error, and no places_nearby request was sent.
C19_InvalidParameterNeverReachesProvider ==
    (/\ phase = "searched"
     /\ \/ Outside(call.latitude, -900000, 900000)
        \/ Outside(call.longitude, -1800000, 1800000)
        \/ Outside(call.radius_km, 1, 50000))
    => /\ result.outcome = "raised"
       /\ invoked = 0

\* a latitude of 95 degrees on an initialised client: ValueError and no
\* request
C19_Witness ==
    /\ phase = "searched"
    /\ call.client_ready
    /\ call.latitude = Num(950000)
    /\ result.outcome = "raised"
    /\ result.error.type = "ValueError"
    /\ invoked = 0

\* results is ordered non-decreasing by distance_km
IsSortedByDistance(results) ==
    \A i \in 1..(Len(results) - 1) :
        results[i].distance_km <= results[i + 1].distance_km

\* C20: for a valid centre and radius and provider answers of N hospital and
\* M pharmacy places that all have a coordinate, search_hospitals returns
\* min(N + M, 10) results in non-decreasing order of distance_km.
C20_AllLocatedPlacesAreReturned ==
    (/\ phase = "searched"
     /\ call.client_ready
     /\ ~Outside(call.latitude, -900000, 900000)
     /\ ~Outside(call.longitude, -1800000, 1800000)
     /\ ~Outside(call.radius_km, 1, 50000)
     /\ call.hospital.kind = "results"
     /\ call.pharmacy.kind = "results"
     /\ \A i \in 1..Len(call.hospital.results) :
            HasCoordinate(call.hospital.results[i])
     /\ \A i \in 1..Len(call.pharmacy.results) :
            HasCoordinate(call.pharmacy.results[i]))
    => LET n == Len(call.hospital.results) + Len(call.pharmacy.results)
       IN  /\ result.outcome = "returned"
           /\ Len(result.results) = (IF n < 10 THEN n ELSE 10)
           /\ IsSortedByDistance(result.results)

\* the arguments of the call are valid and both places_nearby requests were
\* answered
SearchAnswered ==
    /\ phase = "searched"
    /\ call.client_ready
    /\ ~Outside(call.latitude, -900000, 900000)
    /\ ~Outside(call.longitude, -1800000, 1800000)
    /\ ~Outside(call.radius_km, 1, 50000)
    /\ call.hospital.kind = "results"
    /\ call.pharmacy.kind = "results"

\* the place lacks a name, an address or a rating, has a coordinate and a
\* place_id, and the fields it has are acceptable to HospitalResult
LacksOptionalField(place) ==
    /\ DOMAIN place # {"name", "vicinity", "rating", "place_id", "geometry"}
    /\ HasCoordinate(place)
    /\ "place_id" \in DOMAIN place /\ place.place_id # ""
    /\ "name" \in DOMAIN place => place.name # ""
    /\ "vicinity" \in DOMAIN place => place.vicinity # ""
    /\ "rating" \in DOMAIN place => place.rating \in 0..50

\* r is the result made from the place, with the defaults for what it lacks
IsResultOf(r, place) ==
    /\ r.place_id = place.place_id
    /\ r.name = (IF "name" \in DOMAIN place THEN place.name ELSE "Unknown")
    /\ r.address = (IF "vicinity" \in DOMAIN place THEN place.vicinity
                    ELSE "Address not available")
    /\ r.rating = (IF "rating" \in DOMAIN place THEN Num(place.rating) ELSE NaN)

C23_LookupIffLocationAndKeyword ==
    (phase = "triaged" /\ result.outcome = "returned")
    => LET function_calls == result.response.function_calls
           wanted == /\ call.location # None
                     /\ \E k \in {"hospital", "emergency", "doctor", "medical help"} :
                            Contains(Lower(call.text), k)
       IN  /\ (function_calls # <<>>) <=> wanted
           /\ wanted => /\ function_calls[1].name = "search_hospitals"
                        /\ function_calls[1].parameters.latitude
                               = call.location.latitude
                        /\ function_calls[1].parameters.longitude
                               = call.location.longitude
                        /\ function_calls[1].parameters.radius_km > 0

\* a text with a capitalised keyword and a location produced the call
C23_Witness ==
    /\ phase = "triaged"
    /\ result.outcome = "returned"
    /\ call.text = "Where is the nearest Hospital?"
    /\ call.location # None
    /\ Len(result.response.function_calls) = 1

\* C22: when generate_response returned an answer and a search_hospitals
\* call made for it raised, process_request returns the ChatResponse with
\* the advice of that answer and without hospitals.
C22_LookupFailureKeepsTheAdvice ==
    (/\ phase = "processed"
     /\ result.ai # None
     /\ result.ai.outcome = "returned"
     /\ \E i \in 1..Len(result.lookups) : result.lookups[i].outcome = "raised")
    => /\ result.result.outcome = "returned"
       /\ result.result.response.advice = result.ai.response.text
       /\ result.result.response.hospitals = None

\* the provider refused the hospital request of a lookup and the request
\* was answered with the advice
C22_Witness ==
    /\ phase = "processed"
    /\ call.client_ready
    /\ call.hospital.kind = "raise"
    /\ Len(result.lookups) = 1
    /\ result.lookups[1].outcome = "raised"
    /\ result.result.outcome = "returned"
    /\ result.result.response.advice = "It may be a common cold."

\* C29: the text sanitize_text returned, which process_request hands to
\* the AI client, matches none of DANGEROUS_PATTERNS.
C29_SanitizedTextIsSafe ==
    (phase = "processed" /\ result.handed # <<>>)
    => ~MatchesDangerousPattern(result.handed[1])

\* C30: the text sanitize_text returned is not empty, so that no empty text
\* is handed to generate_response.
C30_SanitizedTextIsNotEmpty ==
    phase = "processed"
    => /\ SanitizedOf[call.text].outcome = "returned"
          => SanitizedOf[call.text].text # ""
       /\ \A i \in 1..Len(result.handed) : result.handed[i] # ""

\* C24: after any sequence of initialize_all and cleanup calls, _initialized
\* is set only while both clients hold a connection; initialize_all returns
\* with _initialized set exactly when both clients initialized, and
\* otherwise raises ConnectionError with both clients closed and
\* _initialized false; cleanup leaves _initialized false.
C24_InitializedOnlyWithBothClients ==
    /\ service_manager.initialized
          => /\ service_manager.gemini_client.model
             /\ service_manager.maps_client.client
    /\ (phase = "called" /\ call.op = "initialize_all")
          => IF call.gemini_ok /\ call.maps_ok
             THEN /\ result.outcome = "returned"
                  /\ service_manager.initialized
             ELSE /\ result.outcome = "raised"
                  /\ result.error.type = "ConnectionError"
                  /\ ~service_manager.initialized
                  /\ ~service_manager.gemini_client.model
                  /\ ~service_manager.maps_client.client
    /\ (phase = "called" /\ call.op = "cleanup")
          => ~service_manager.initialized

\* an initialized manager was initialized again and the second client
\* failed: ConnectionError, flag cleared
C24_Witness ==
    /\ phase = "called"
    /\ Len(history) >= 2
    /\ history[Len(history) - 1] = [op |-> "initialize_all", gemini_ok |-> TRUE,
                                    maps_ok |-> TRUE]
    /\ call = [op |-> "initialize_all", gemini_ok |-> TRUE, maps_ok |-> FALSE]
    /\ result.outcome = "raised"
    /\ ~service_manager.initialized

BeforeFirst(t, m) == SubSeq(t, 1, FirstIndex(t, m) - 1)
AfterFirst(t, m) == SubSeq(t, FirstIndex(t, m) + Len(m), Len(t))

\* t without the marker it starts with, if it starts with it
WithoutLeading(t, marker) ==
    LET s == LStrip(t)
    IN  IF Len(s) >= Len(marker) /\ SubSeq(s, 1, Len(marker)) = marker
        THEN SubSeq(s, Len(marker) + 1, Len(s))
        ELSE t

\* a call of generate_response or generate_conversational_response that
\* built its answer from a backend text
AnsweredByBackend ==
    /\ phase \in {"returned", "triaged"}
    /\ invoked = 1
    /\ result.outcome = "returned"

\* C26: when the backend text holds both markers and both segments are
\* non-empty, brief is the trimmed text before the first "DETAILED:" without
\* its leading "BRIEF:", and detailed is the trimmed text after that first
\* "DETAILED:" up to the end of the text, later "DETAILED:" included.
C26_DetailedRunsToTheEnd ==
    AnsweredByBackend
    => LET raw == result.response.text
       IN  (Contains(raw, "BRIEF:") /\ Contains(raw, "DETAILED:"))
           => LET brief    == Strip(WithoutLeading(BeforeFirst(raw, "DETAILED:"),
                                                   "BRIEF:"))
                  detailed == Strip(AfterFirst(raw, "DETAILED:"))
              IN  (brief # "" /\ detailed # "")
                  => /\ result.response.brief_text = brief
                     /\ result.response.detailed_text = detailed

\* C27: once the history holds an assistant turn that the short-circuit
\* test recognises, every call on that history or on one extending it
\* returns stage completed, carries no function call and does not invoke
\* the backend.
C27_CompletedIsAbsorbing ==
    (phase = "returned" /\ consultation_completed(call.conversation_history))
    => /\ result.outcome = "returned"
       /\ result.response.metadata.assessment_stage = "completed"
       /\ result.response.function_calls = <<>>
       /\ invoked = 0

=============================================================================
